---- MODULE Spec2Model ----
(***************************************************************************)
(* A model of the bombing-solution engine (bomb_release_calculator.py) and *)
(* of the telemetry / controller layer (mavlink_integration.py).           *)
(*                                                                         *)
(* Numbers.  Python floats are modelled as scaled integers plus the one    *)
(* IEEE value the range checks of the code let through, NaN:               *)
(*   latitude, longitude      1e-4 degree                                  *)
(*   altitude, height,                                                     *)
(*   distance                 millimetre                                   *)
(*   airspeed, groundspeed    metre / second                               *)
(*   flight / release times   centisecond                                  *)
(*   angles                   milliradian (degrees: millidegree)           *)
(*   wall clock               second                                       *)
(* Float arithmetic is NaN-propagating, float comparisons with NaN are     *)
(* false, as in IEEE 754 / Python.  Quotients are floored to the unit.     *)
(***************************************************************************)
EXTENDS Integers, Sequences, FiniteSets, TLC

(***************************************************************************)
(* Floats                                                                  *)
(***************************************************************************)
\* float('nan'): a value outside every range the model's numbers take.
NaN == -999999999

IsNaN(x) == x = NaN

\* a < b, a <= b, a > b on floats: False as soon as an operand is NaN.
Lt(a, b) == ~IsNaN(a) /\ ~IsNaN(b) /\ a < b
Le(a, b) == ~IsNaN(a) /\ ~IsNaN(b) /\ a <= b
Gt(a, b) == ~IsNaN(a) /\ ~IsNaN(b) /\ a > b

FAdd(a, b) == IF IsNaN(a) \/ IsNaN(b) THEN NaN ELSE a + b
FSub(a, b) == IF IsNaN(a) \/ IsNaN(b) THEN NaN ELSE a - b
FMul(a, b) == IF IsNaN(a) \/ IsNaN(b) THEN NaN ELSE a * b
FDiv(a, b) == IF IsNaN(a) \/ IsNaN(b) THEN NaN ELSE a \div b
FAbs(a) == IF IsNaN(a) THEN NaN ELSE IF a < 0 THEN -a ELSE a

\* Python's max(a, b): b when b > a, else a (so max(NaN, x) is NaN and
\* max(x, NaN) is x).
FMax(a, b) == IF Gt(b, a) THEN b ELSE a

\* math.sqrt on a non-negative integer, floored.
RECURSIVE SqrtSearch(_, _, _)
SqrtSearch(n, lo, hi) ==
    IF lo >= hi THEN lo
    ELSE LET mid == (lo + hi + 1) \div 2
         IN IF mid * mid <= n THEN SqrtSearch(n, mid, hi)
            ELSE SqrtSearch(n, lo, mid - 1)

\* (46340 is the largest root whose square is a 32-bit integer.)
Sqrt(x) == IF IsNaN(x) THEN NaN ELSE SqrtSearch(x, 0, 46340)

\* Optional[...]: None is the empty tuple, a value v is <<v>>.
None == <<>>
Some(v) == <<v>>
IsNone(o) == Len(o) = 0
Val(o) == o[1]

(***************************************************************************)
(* ErrorCode                                                               *)
(***************************************************************************)
ErrorCode ==
    {"SUCCESS", "INVALID_COORDINATES", "INVALID_SPEED", "TARGET_TOO_FAR",
     "CALCULATION_ERROR", "NUMERICAL_INSTABILITY"}

\* The message templates of calculate_release_point, one tag per template.
MsgAltitudeTooLow == "aircraft altitude too low"
MsgTargetTooFar == "target too far"
MsgNoTrajectory == "no valid ballistic trajectory"
MsgUnstable == "result unstable, release distance too large"
MsgWindowMissed == "release window missed, re-plan the route"
MsgException == "error during calculation"

(***************************************************************************)
(* Position, SpeedData, BombCharacteristics                                *)
(***************************************************************************)
\* A raised exception, as the outcome of a constructor or a call.
Raised(kind) == [exception |-> kind]
IsRaised(r) == "exception" \in DOMAIN r

\* A constructor that clamps the latitude into range instead of rejecting it.
Position_clamping(latitude, longitude, altitude) ==
    IF ~(Le(-1800000, longitude) /\ Le(longitude, 1800000))
    THEN Raised("ValueError")
    ELSE IF Lt(altitude, 0)
    THEN Raised("ValueError")
    ELSE [latitude |-> IF Gt(latitude, 900000) THEN 900000
                       ELSE IF Lt(latitude, -900000) THEN -900000
                       ELSE latitude,
          longitude |-> longitude, altitude |-> altitude]

\* Position.__post_init__ after the dataclass has stored the fields.
Position(latitude, longitude, altitude) ==
    IF ~(Le(-900000, latitude) /\ Le(latitude, 900000))
    THEN Raised("ValueError")
    ELSE IF ~(Le(-1800000, longitude) /\ Le(longitude, 1800000))
    THEN Raised("ValueError")
    ELSE IF Lt(altitude, 0)
    THEN Raised("ValueError")
    ELSE [latitude |-> latitude, longitude |-> longitude, altitude |-> altitude]

\* SpeedData.__post_init__; the plausibility warning only logs.
SpeedData(airspeed, groundspeed) ==
    IF Le(airspeed, 0) THEN Raised("ValueError")
    ELSE IF Le(groundspeed, 0) THEN Raised("ValueError")
    ELSE [airspeed |-> airspeed, groundspeed |-> groundspeed]

\* BombCharacteristics(): mass in gram, drag coefficient in 1/100, area in cm^2.
BombCharacteristics ==
    [mass |-> 350, drag_coefficient |-> 47, cross_sectional_area |-> 30]

\* BombReleaseCalculator.__init__: the only instance attribute.
BombReleaseCalculator == [bomb_characteristics |-> BombCharacteristics]

\* Class constants of BombReleaseCalculator.
GRAVITY == 981
MAX_REASONABLE_DISTANCE == 50000000
MIN_RELEASE_HEIGHT == 50000
MAX_FLIGHT_TIME == 6000

(***************************************************************************)
(* Geodesy                                                                 *)
(***************************************************************************)
\* The coordinates the model flies between.
AircraftCoord == <<223193, 1141694>>
TargetSame == <<223193, 1141694>>
TargetNear == <<223203, 1141694>>
TargetClose == <<223223, 1141694>>
TargetMid == <<223243, 1141694>>
TargetA == <<223293, 1141794>>
TargetFar == <<226193, 1141694>>
TargetC == <<230000, 1150000>>

TargetCoords ==
    {TargetSame, TargetNear, TargetClose, TargetMid, TargetA, TargetFar, TargetC}

\* The haversine distance (mm) and the initial bearing (mrad) from
\* AircraftCoord, as the source's formula evaluates them at these coordinates.
HaversineTable(from, to) ==
    CASE from = AircraftCoord /\ to = TargetSame -> <<0, 0>>
      [] from = AircraftCoord /\ to = TargetNear -> <<111195, 0>>
      [] from = AircraftCoord /\ to = TargetClose -> <<333585, 0>>
      [] from = AircraftCoord /\ to = TargetMid -> <<555975, 0>>
      [] from = AircraftCoord /\ to = TargetA -> <<1514749, 746>>
      [] from = AircraftCoord /\ to = TargetFar -> <<33358478, 0>>
      [] from = AircraftCoord /\ to = TargetC -> <<113986501, 842>>

\* <<distance, bearing>>.
calculate_distance_and_bearing(pos1, pos2) ==
    HaversineTable(<<pos1.latitude, pos1.longitude>>,
                   <<pos2.latitude, pos2.longitude>>)

\* math.degrees on milliradians, in millidegrees.
Degrees(rad) == (rad * 180000) \div 3142

(***************************************************************************)
(* WindEstimator                                                           *)
(***************************************************************************)
\* <<wind_speed, wind_angle>>; the bearing is not used.
calculate_wind_effect(airspeed, groundspeed, bearing) ==
    <<FAbs(FSub(airspeed, groundspeed)),
      IF Gt(airspeed, groundspeed) THEN 3142 ELSE 0>>

(***************************************************************************)
(* BallisticModel                                                          *)
(***************************************************************************)
\* sqrt(2 * height / g) in centiseconds, height in millimetres.
vertical_time_of(height) ==
    Sqrt(FMul(FDiv(FMul(height, 20), GRAVITY), 100))

\* distance / |v| in centiseconds, distance in millimetres, v in m/s.
horizontal_time_of(distance, effective_horizontal_velocity) ==
    FDiv(distance, FMul(10, FAbs(effective_horizontal_velocity)))

\* initial_velocity + wind_speed: the wind speed is added whatever its angle.
effective_horizontal_velocity_of(initial_velocity, wind_speed) ==
    FAdd(initial_velocity, wind_speed)

\* A clamp that also takes the case of exactly 1.2 times the fall time.
reconciled_flight_time_inclusive(horizontal_time, vertical_time) ==
    IF /\ ~IsNaN(horizontal_time)
       /\ ~IsNaN(vertical_time)
       /\ horizontal_time * 10 >= vertical_time * 12
    THEN vertical_time
    ELSE FMax(horizontal_time, FDiv(FMul(vertical_time, 8), 10))

\* The time kept before the final check and the drag correction.
reconciled_flight_time(horizontal_time, vertical_time) ==
    IF Gt(FMul(horizontal_time, 10), FMul(vertical_time, 12))
    THEN vertical_time
    ELSE FMax(horizontal_time, FDiv(FMul(vertical_time, 8), 10))

\* A ballistic model whose drag correction exceeds the 20 % of the clamp.
calculate_ballistic_trajectory_heavy_drag(initial_velocity, height, distance, wind_speed) ==
    IF Le(height, 0) THEN None
    ELSE IF Le(distance, 0) THEN None
    ELSE LET vertical_time == vertical_time_of(height)
             effective_horizontal_velocity ==
                 effective_horizontal_velocity_of(initial_velocity, wind_speed)
         IN IF Lt(FAbs(effective_horizontal_velocity), 1) THEN None
            ELSE LET horizontal_time ==
                         horizontal_time_of(distance, effective_horizontal_velocity)
                     flight_time ==
                         reconciled_flight_time(horizontal_time, vertical_time)
                 IN IF Le(flight_time, 0) \/ Gt(flight_time, MAX_FLIGHT_TIME)
                    THEN None
                    ELSE Some(FDiv(FMul(flight_time, 13), 10))

\* A ballistic model without the check of the distance.
calculate_ballistic_trajectory_any_distance(initial_velocity, height, distance, wind_speed) ==
    IF Le(height, 0) THEN None
    ELSE LET vertical_time == vertical_time_of(height)
             effective_horizontal_velocity ==
                 effective_horizontal_velocity_of(initial_velocity, wind_speed)
         IN IF Lt(FAbs(effective_horizontal_velocity), 1) THEN None
            ELSE LET horizontal_time ==
                         horizontal_time_of(distance, effective_horizontal_velocity)
                     flight_time ==
                         reconciled_flight_time(horizontal_time, vertical_time)
                 IN IF Le(flight_time, 0) \/ Gt(flight_time, MAX_FLIGHT_TIME)
                    THEN None
                    ELSE Some(FDiv(FMul(flight_time, 11), 10))

\* Optional[float]: the flight time, or None.
calculate_ballistic_trajectory(initial_velocity, height, distance, wind_speed) ==
    IF Le(height, 0) THEN None
    ELSE IF Le(distance, 0) THEN None
    ELSE LET vertical_time == vertical_time_of(height)
             effective_horizontal_velocity ==
                 effective_horizontal_velocity_of(initial_velocity, wind_speed)
         IN IF Lt(FAbs(effective_horizontal_velocity), 1) THEN None
            ELSE LET horizontal_time ==
                         horizontal_time_of(distance, effective_horizontal_velocity)
                     flight_time ==
                         reconciled_flight_time(horizontal_time, vertical_time)
                 IN IF Le(flight_time, 0) \/ Gt(flight_time, MAX_FLIGHT_TIME)
                    THEN None
                    ELSE Some(FDiv(FMul(flight_time, 11), 10))

(***************************************************************************)
(* ReleaseSolver                                                           *)
(***************************************************************************)
\* An object without the attributes of a Position or a SpeedData (None).
NoneType == [type |-> "NoneType"]
HasAttr(obj, name) == name \in DOMAIN obj

\* The result dictionary as calculate_release_point first builds it.
InitialResult ==
    [success |-> FALSE, error_code |-> "SUCCESS", message |-> "",
     release_time |-> None, release_distance |-> None, flight_time |-> None,
     wind_speed |-> None, calculations |-> <<>>]

Failure(error_code, message) ==
    [InitialResult EXCEPT !.error_code = error_code, !.message = message]

\* An altitude check that also rejects the minimum itself.
altitude_too_low_inclusive(aircraft_pos) ==
    Le(aircraft_pos.altitude, MIN_RELEASE_HEIGHT)

\* The checks of the try block, in the order the code applies them.
altitude_too_low(aircraft_pos) ==
    Lt(aircraft_pos.altitude, MIN_RELEASE_HEIGHT)

target_too_far(distance) == Gt(distance, MAX_REASONABLE_DISTANCE)

\* The altitude difference taken the wrong way round.
height_above_target_swapped(aircraft_pos, target_pos) ==
    FSub(target_pos.altitude, aircraft_pos.altitude)

height_above_target(aircraft_pos, target_pos) ==
    FSub(aircraft_pos.altitude, target_pos.altitude)

\* groundspeed * flight_time: m/s * cs = cm, kept in mm.
release_distance_of(groundspeed, flight_time) ==
    FMul(FMul(groundspeed, flight_time), 10)

release_unstable(release_distance, distance) ==
    Gt(release_distance, FMul(distance, 2))

\* (distance - release_distance) / groundspeed, in centiseconds.
release_time_of(distance, release_distance, groundspeed) ==
    FDiv(FSub(distance, release_distance), FMul(10, groundspeed))

release_window_missed(release_time) == Lt(release_time, 0)

\* The effective horizontal velocity the ballistic model works with when
\* calculate_release_point calls it: the groundspeed and the wind speed of
\* calculate_wind_effect, whose angle is not passed on.
solve_effective_velocity(speed_data, bearing) ==
    effective_horizontal_velocity_of(
        speed_data.groundspeed,
        calculate_wind_effect(speed_data.airspeed, speed_data.groundspeed,
                              bearing)[1])

\* The try block from the wind estimate on, distance and bearing known.
release_point_from_wind(aircraft_pos, target_pos, speed_data, distance, bearing) ==
    LET wind == calculate_wind_effect(speed_data.airspeed,
                                      speed_data.groundspeed, bearing)
        wind_speed == wind[1]
        wind_angle == wind[2]
        flight == calculate_ballistic_trajectory(
                      speed_data.groundspeed,
                      height_above_target(aircraft_pos, target_pos),
                      distance, wind_speed)
    IN IF IsNone(flight)
       THEN Failure("CALCULATION_ERROR", MsgNoTrajectory)
       ELSE
       LET flight_time == Val(flight)
           release_distance ==
               release_distance_of(speed_data.groundspeed, flight_time)
       IN IF release_unstable(release_distance, distance)
          THEN Failure("NUMERICAL_INSTABILITY", MsgUnstable)
          ELSE
          LET release_time ==
                  release_time_of(distance, release_distance,
                                  speed_data.groundspeed)
          IN IF release_window_missed(release_time)
             THEN Failure("CALCULATION_ERROR", MsgWindowMissed)
             ELSE [success |-> TRUE, error_code |-> "SUCCESS",
                   message |-> "",
                   release_time |-> Some(release_time),
                   release_distance |-> Some(release_distance),
                   flight_time |-> Some(flight_time),
                   wind_speed |-> Some(wind_speed),
                   calculations |->
                     [target_distance |-> distance,
                      target_bearing |-> Degrees(bearing),
                      wind_angle |-> Degrees(wind_angle),
                      aircraft_altitude |-> aircraft_pos.altitude,
                      target_altitude |-> target_pos.altitude,
                      altitude_difference |->
                        height_above_target(aircraft_pos, target_pos)]]

\* A solver that measures the range before it looks at the altitude.
release_point_body_range_first(aircraft_pos, target_pos, speed_data) ==
    IF ~HasAttr(target_pos, "latitude")
    THEN Failure("CALCULATION_ERROR", MsgException)
    ELSE
    LET db == calculate_distance_and_bearing(aircraft_pos, target_pos)
    IN IF target_too_far(db[1])
       THEN Failure("TARGET_TOO_FAR", MsgTargetTooFar)
       ELSE IF altitude_too_low(aircraft_pos)
       THEN Failure("INVALID_COORDINATES", MsgAltitudeTooLow)
       ELSE release_point_from_wind(aircraft_pos, target_pos, speed_data,
                                    db[1], db[2])

\* The body of the try block once every attribute access is known to succeed.
release_point_body(aircraft_pos, target_pos, speed_data) ==
    IF altitude_too_low(aircraft_pos)
    THEN Failure("INVALID_COORDINATES", MsgAltitudeTooLow)
    ELSE
    LET db == calculate_distance_and_bearing(aircraft_pos, target_pos)
    IN IF target_too_far(db[1])
       THEN Failure("TARGET_TOO_FAR", MsgTargetTooFar)
       ELSE release_point_from_wind(aircraft_pos, target_pos, speed_data,
                                    db[1], db[2])

\* An attribute access of the try block fails (AttributeError; inside
\* calculate_distance_and_bearing it is re-raised as ValueError).
release_point_raises(aircraft_pos, target_pos, speed_data) ==
    \/ ~HasAttr(aircraft_pos, "altitude")
    \/ /\ ~altitude_too_low(aircraft_pos)
       /\ \/ ~HasAttr(target_pos, "latitude")
          \/ /\ ~target_too_far(
                    calculate_distance_and_bearing(aircraft_pos, target_pos)[1])
             /\ ~HasAttr(speed_data, "airspeed")

\* An except clause that lets the exception out.
release_point_escapes(aircraft_pos, target_pos, speed_data) ==
    Raised("AttributeError")

\* The except clause of calculate_release_point.
release_point_except(aircraft_pos, target_pos, speed_data) ==
    Failure("CALCULATION_ERROR", MsgException)

\* calculate_release_point: the result dictionary it returns.
calculate_release_point(self, aircraft_pos, target_pos, speed_data) ==
    IF release_point_raises(aircraft_pos, target_pos, speed_data)
    THEN release_point_except(aircraft_pos, target_pos, speed_data)
    ELSE release_point_body(aircraft_pos, target_pos, speed_data)

\* A solver that keeps the last groundspeed it saw on the calculator.
calculator_keeping_last_speed(self, aircraft_pos, target_pos, speed_data) ==
    IF HasAttr(speed_data, "groundspeed")
    THEN [bomb_characteristics |-> self.bomb_characteristics,
          last_groundspeed |-> speed_data.groundspeed]
    ELSE self

\* The calculator after calculate_release_point: no attribute is assigned.
calculator_after_release_point(self, aircraft_pos, target_pos, speed_data) ==
    self

(***************************************************************************)
(* FlightData, telemetry validation, MAVLinkConnection                     *)
(***************************************************************************)
FRESHNESS_WINDOW == 5
LIVENESS_WINDOW == 5
RECONNECT_INTERVAL == 5
FLIGHT_DATA_TIMEOUT == 10
HISTORY_LIMIT == 10
SPEED_CEILING == 200

FlightData(position, speed, timestamp) ==
    [position |-> position, speed |-> speed, timestamp |-> timestamp]

\* A freshness test that still accepts a reading exactly at the limit.
is_valid_inclusive(flight_data, current_time) ==
    (current_time - flight_data.timestamp) <= FRESHNESS_WINDOW

\* FlightData.is_valid at clock reading current_time.
is_valid(flight_data, current_time) ==
    (current_time - flight_data.timestamp) < FRESHNESS_WINDOW

\* validate_mavlink_data: whether the two speeds are accepted.
validate_mavlink_data(airspeed, groundspeed) ==
    IF Le(airspeed, 0) THEN FALSE
    ELSE IF Le(groundspeed, 0) THEN FALSE
    ELSE IF Gt(airspeed, SPEED_CEILING) THEN FALSE
    ELSE IF Gt(groundspeed, SPEED_CEILING) THEN FALSE
    ELSE TRUE

\* MAVLinkConnection.__init__
MAVLinkConnection ==
    [connection |-> None, is_connected |-> FALSE, last_heartbeat |-> 0]

\* What a non-blocking read of HEARTBEAT can give.
HeartbeatRx(pending) ==
    IF pending THEN {"heartbeat", "error"} ELSE {"none", "error"}

\* A check that gives up the session when the liveness window is exceeded.
check_connection_dropping(conn, current_time, rx) ==
    IF ~conn.is_connected \/ IsNone(conn.connection)
    THEN [ret |-> FALSE, conn |-> conn, consumed |-> FALSE]
    ELSE IF current_time - conn.last_heartbeat > LIVENESS_WINDOW
    THEN IF rx = "heartbeat"
         THEN [ret |-> TRUE,
               conn |-> [conn EXCEPT !.last_heartbeat = current_time],
               consumed |-> TRUE]
         ELSE [ret |-> FALSE, conn |-> [conn EXCEPT !.is_connected = FALSE],
               consumed |-> FALSE]
    ELSE [ret |-> TRUE, conn |-> conn, consumed |-> FALSE]

\* A check that reads the heartbeat and forgets to note when.
check_connection_not_stamping(conn, current_time, rx) ==
    IF ~conn.is_connected \/ IsNone(conn.connection)
    THEN [ret |-> FALSE, conn |-> conn, consumed |-> FALSE]
    ELSE IF current_time - conn.last_heartbeat > LIVENESS_WINDOW
    THEN IF rx = "heartbeat"
         THEN [ret |-> TRUE, conn |-> conn, consumed |-> TRUE]
         ELSE [ret |-> FALSE, conn |-> conn, consumed |-> FALSE]
    ELSE [ret |-> TRUE, conn |-> conn, consumed |-> FALSE]

\* A check that takes a heartbeat on an open handle for a new session.
check_connection_reviving(conn, current_time, rx) ==
    IF IsNone(conn.connection)
    THEN [ret |-> FALSE, conn |-> conn, consumed |-> FALSE]
    ELSE IF ~conn.is_connected
            \/ current_time - conn.last_heartbeat > LIVENESS_WINDOW
    THEN IF rx = "heartbeat"
         THEN [ret |-> TRUE,
               conn |-> [conn EXCEPT !.is_connected = TRUE,
                                     !.last_heartbeat = current_time],
               consumed |-> TRUE]
         ELSE [ret |-> FALSE, conn |-> conn, consumed |-> FALSE]
    ELSE [ret |-> TRUE, conn |-> conn, consumed |-> FALSE]

\* A disconnect that gives up the handle and forgets the flag.
disconnect_keeping_flag(conn, close_raises) ==
    IF IsNone(conn.connection) THEN conn
    ELSE [conn EXCEPT !.connection = None]

\* A disconnect whose reset is lost when closing the transport raises.
disconnect_without_finally(conn, close_raises) ==
    IF IsNone(conn.connection) THEN conn
    ELSE IF close_raises THEN conn
    ELSE [conn EXCEPT !.connection = None, !.is_connected = FALSE]

\* MAVLinkConnection.disconnect: the connection afterwards; close_raises
\* tells whether connection.close() raised.
disconnect(conn, close_raises) ==
    IF IsNone(conn.connection) THEN conn
    ELSE [conn EXCEPT !.connection = None, !.is_connected = FALSE]

\* check_connection at clock reading current_time, rx being the outcome of
\* its non-blocking read when it makes one: the value returned, the
\* connection afterwards, and whether a buffered heartbeat was consumed.
check_connection(conn, current_time, rx) ==
    IF ~conn.is_connected \/ IsNone(conn.connection)
    THEN [ret |-> FALSE, conn |-> conn, consumed |-> FALSE]
    ELSE IF current_time - conn.last_heartbeat > LIVENESS_WINDOW
    THEN IF rx = "heartbeat"
         THEN [ret |-> TRUE,
               conn |-> [conn EXCEPT !.last_heartbeat = current_time],
               consumed |-> TRUE]
         ELSE [ret |-> FALSE, conn |-> conn, consumed |-> FALSE]
    ELSE [ret |-> TRUE, conn |-> conn, consumed |-> FALSE]

\* get_complete_flight_data: the budget of the position pull.
half_timeout_of(timeout) == timeout \div 2

\* A speed budget that forgets the time the position pull took.
remaining_timeout_whole(timeout, start_time, current_time) == timeout

\* get_complete_flight_data: the budget left for the speed pull.
remaining_timeout_of(timeout, start_time, current_time) ==
    timeout - (current_time - start_time)

\* get_position_data after the receive: msg is None or <<message>>.
position_from_message(msg) ==
    IF IsNone(msg) THEN None
    ELSE LET p == Position(Val(msg).lat \div 1000, Val(msg).lon \div 1000,
                           Val(msg).alt)
         IN IF IsRaised(p) THEN None ELSE Some(p)

\* get_speed_data after the receive.
speed_from_message(msg) ==
    IF IsNone(msg) THEN None
    ELSE IF ~validate_mavlink_data(Val(msg).airspeed, Val(msg).groundspeed)
    THEN None
    ELSE LET s == SpeedData(Val(msg).airspeed, Val(msg).groundspeed)
         IN IF IsRaised(s) THEN None ELSE Some(s)

\* The failure messages of calculate_bomb_release.
MsgNotConnected == "MAVLink connection not established or lost"
MsgNoFlightData == "cannot get current flight data"
MsgStale == "flight data expired, fetch again"

\* The result dictionary of calculate_bomb_release on its own failures.
ControllerFailure(message, timestamp) ==
    [success |-> FALSE, error_code |-> "CALCULATION_ERROR",
     message |-> message, timestamp |-> timestamp]

\* A history that keeps its first entries and turns the newest away.
history_append_dropping_newest(history, entry) ==
    IF Len(history) >= HISTORY_LIMIT THEN history ELSE Append(history, entry)

\* A history that records every solve twice.
history_append_twice(history, entry) ==
    LET h == Append(Append(history, entry), entry)
    IN IF Len(h) > HISTORY_LIMIT THEN Tail(h) ELSE h

\* calculation_history after the append and the trim to the last entries.
history_append(history, entry) ==
    LET h == Append(history, entry)
    IN IF Len(h) > HISTORY_LIMIT THEN Tail(h) ELSE h

(***************************************************************************)
(* Bounds and input sets                                                   *)
(***************************************************************************)
MaxTicks == 6
MaxOpens == 1
MaxSolves == 1
MaxPullTicks == 11
MaxLinkOpens == 2
MaxReconnects == 1
MaxHistorySolves == 12
MaxServiceConnects == 2

AircraftAltitudes == {10000, 49999, 50000, 500000, 16500000, 20000000, NaN}
TargetAltitudes == {0, 500000}
SpeedPairs == {<<50, 45>>, <<40, 50>>, <<45, 45>>, <<NaN, 45>>, <<50, NaN>>}

AircraftPositions ==
    {Position(AircraftCoord[1], AircraftCoord[2], alt) : alt \in AircraftAltitudes}
    \cup {NoneType}
TargetPositions ==
    {Position(c[1], c[2], alt) : c \in TargetCoords, alt \in TargetAltitudes}
    \cup {NoneType}
SpeedSamples == {SpeedData(sp[1], sp[2]) : sp \in SpeedPairs} \cup {NoneType}

\* Raw constructor arguments.
RawLatitudes == {-900001, -900000, 223193, 900000, 900001, 2000000, NaN}
RawLongitudes == {-1800001, -1800000, 1141694, 1800000, 1800001, NaN}
RawAltitudes == {-1, 0, 49999, 500000, NaN}
RawSpeeds == {-10, 0, 1, 45, 50, NaN}

\* Direct arguments of the ballistic model.
BallisticVelocities == {-45, 0, 45, 200}
BallisticHeights ==
    {-1000, 0, 50000, 490500, 500000, 16500000, 20000000, NaN}
BallisticDistances ==
    {0, 111195, 555975, 600000, 1514749, 33358478, NaN}
BallisticWinds == {0, 5, 45}

\* The scenario of the functional test.
ScenarioAircraft == Position(AircraftCoord[1], AircraftCoord[2], 500000)
ScenarioTarget == Position(TargetA[1], TargetA[2], 0)
ScenarioSpeed == SpeedData(50, 45)

\* What the telemetry stream can carry: a reading the collector accepts
\* and one it rejects, of each message.
PositionMessages ==
    {[lat |-> 223193000, lon |-> 1141694000, alt |-> 500000],
     [lat |-> 910000000, lon |-> 1141694000, alt |-> 500000]}
SpeedMessages ==
    {[airspeed |-> 50, groundspeed |-> 45],
     [airspeed |-> 250, groundspeed |-> 45]}
ControllerTargets == {ScenarioTarget, NoneType}
ConnectTimeouts == {5}

\* Arguments of the direct solver calls made next to the controller: the
\* scenario, and the scenario with one argument missing.
DirectArguments ==
    {<<ScenarioAircraft, ScenarioTarget, ScenarioSpeed>>,
     <<NoneType, ScenarioTarget, ScenarioSpeed>>,
     <<ScenarioAircraft, NoneType, ScenarioSpeed>>,
     <<ScenarioAircraft, ScenarioTarget, NoneType>>}

\* Arguments of the repeated solver calls.
PureAircraft ==
    {Position(AircraftCoord[1], AircraftCoord[2], alt) :
        alt \in {10000, 500000, NaN}}
PureTargets == {ScenarioTarget, Position(TargetClose[1], TargetClose[2], 0)}
PureSpeeds == {ScenarioSpeed, SpeedData(NaN, 45)}

(***************************************************************************)
(* State                                                                   *)
(***************************************************************************)
VARIABLES
    call,                \* the call the caller made last: name and arguments
    returned,            \* what it returned, Pending while it runs
    calculator,          \* the BombReleaseCalculator instance
    pinned,              \* an earlier calculate_release_point call, remembered
    now,                 \* time.time()
    mavlink_conn,        \* the controller's MAVLinkConnection
    opened,              \* transport handles opened so far
    hb_pending,          \* a HEARTBEAT is buffered on the transport, unread
    pc,                  \* where the caller is inside a controller call
    frame,               \* the locals of the call in progress
    last_calculation,    \* BombReleaseController.last_calculation
    calculation_history, \* BombReleaseController.calculation_history
    solver_calls,        \* calculate_release_point invocations by the controller
    mavlink_available,   \* MAVLINK_AVAILABLE: the pymavlink import succeeded
    heard,               \* when the transport last delivered a HEARTBEAT, 0: never
    service,             \* LinuxBombReleaseService: where connect_mavlink stands
    handles              \* transport handles opened and not closed since

vars ==
    <<call, returned, calculator, pinned, now, mavlink_conn, opened, hb_pending,
      pc, frame, last_calculation, calculation_history, solver_calls,
      mavlink_available, heard, service, handles>>

solver_vars == <<call, returned, calculator, pinned>>
controller_vars ==
    <<now, mavlink_conn, opened, hb_pending, pc, frame, last_calculation,
      calculation_history, solver_calls, mavlink_available, heard, service, handles>>

\* LinuxBombReleaseService as far as connect_mavlink goes: whether a
\* connect_mavlink is in its loop, the connections list and timeout it read
\* from the configuration, the targets it has attempted and those it has
\* logged as failed, what it returned, and how often it was called; then
\* self.running, the auto_reconnect setting, where a stop() stands, where
\* the monitor thread stands and when its sleep ends.
LinuxBombReleaseService ==
    [connecting |-> FALSE, connections |-> <<>>, connection_timeout |-> 0,
     attempted |-> <<>>, failed |-> <<>>, result |-> "none", calls |-> 0,
     running |-> FALSE, auto_reconnect |-> TRUE, stop |-> "none",
     monitor |-> "none", wake |-> 0]

\* The locals of a controller call: zero or NoneType until assigned.
NoFrame ==
    [target_pos |-> NoneType, timestamp |-> 0, start_time |-> 0,
     deadline |-> 0, position |-> NoneType, position_received |-> 0,
     flight_data |-> NoneType]

\* What a call returned: a result dictionary or an object as it is, any
\* other value v as [value |-> v]; Pending while the call runs.
Pending == [pending |-> TRUE]
ReturnValue(v) == [value |-> v]

\* The clock starts more than a liveness window after the epoch, the value
\* last_heartbeat is constructed with.
Init ==
    /\ call = [op |-> "none"]
    /\ returned = Pending
    /\ calculator = BombReleaseCalculator
    /\ pinned = NoneType
    /\ now = LIVENESS_WINDOW + 1
    /\ mavlink_conn = MAVLinkConnection
    /\ opened = 0
    /\ hb_pending = FALSE
    /\ pc = "idle"
    /\ frame = NoFrame
    /\ last_calculation = NoneType
    /\ calculation_history = <<>>
    /\ solver_calls = 0
    /\ mavlink_available \in BOOLEAN
    /\ heard = 0
    /\ service = LinuxBombReleaseService
    /\ handles = {}

(***************************************************************************)
(* The pure operations, called directly                                    *)
(***************************************************************************)
NewPosition ==
    \E latitude \in RawLatitudes, longitude \in RawLongitudes,
       altitude \in RawAltitudes :
        /\ pc = "idle"
        /\ call' = [op |-> "Position", latitude |-> latitude,
                    longitude |-> longitude, altitude |-> altitude]
        /\ returned' = Position(latitude, longitude, altitude)
        /\ UNCHANGED <<calculator, pinned, controller_vars>>

NewSpeedData ==
    \E airspeed \in RawSpeeds, groundspeed \in RawSpeeds :
        /\ pc = "idle"
        /\ call' = [op |-> "SpeedData", airspeed |-> airspeed,
                    groundspeed |-> groundspeed]
        /\ returned' = SpeedData(airspeed, groundspeed)
        /\ UNCHANGED <<calculator, pinned, controller_vars>>

BallisticCall ==
    \E initial_velocity \in BallisticVelocities, height \in BallisticHeights,
       distance \in BallisticDistances, wind_speed \in BallisticWinds :
        /\ pc = "idle"
        /\ call' = [op |-> "calculate_ballistic_trajectory",
                    initial_velocity |-> initial_velocity, height |-> height,
                    distance |-> distance, wind_speed |-> wind_speed]
        /\ returned' = ReturnValue(calculate_ballistic_trajectory(
                           initial_velocity, height, distance, wind_speed))
        /\ UNCHANGED <<calculator, pinned, controller_vars>>

\* calculator.calculate_release_point(aircraft_pos, target_pos, speed_data)
Solve(aircraft_pos, target_pos, speed_data) ==
    /\ pc = "idle"
    /\ call' = [op |-> "calculate_release_point", aircraft_pos |-> aircraft_pos,
                target_pos |-> target_pos, speed_data |-> speed_data]
    /\ returned' = calculate_release_point(calculator, aircraft_pos, target_pos,
                                           speed_data)
    /\ calculator' = calculator_after_release_point(calculator, aircraft_pos,
                                                    target_pos, speed_data)
    /\ UNCHANGED controller_vars

SolveCall ==
    \E aircraft_pos \in AircraftPositions, target_pos \in TargetPositions,
       speed_data \in SpeedSamples :
        /\ Solve(aircraft_pos, target_pos, speed_data)
        /\ UNCHANGED pinned

NextSolver == NewPosition \/ NewSpeedData \/ BallisticCall \/ SolveCall

SpecSolver == Init /\ [][NextSolver]_vars

(***************************************************************************)
(* The environment of the controller: the clock and the aircraft           *)
(***************************************************************************)
Tick ==
    /\ now < LIVENESS_WINDOW + 1 + MaxTicks
    /\ now' = now + 1
    /\ UNCHANGED <<solver_vars, mavlink_conn, opened, hb_pending, pc, frame,
                   last_calculation, calculation_history, solver_calls,
                   mavlink_available, heard, service, handles>>

\* A HEARTBEAT of the aircraft reaches the open transport and waits there.
HeartbeatArrives ==
    /\ ~IsNone(mavlink_conn.connection)
    /\ ~hb_pending
    /\ hb_pending' = TRUE
    /\ UNCHANGED <<solver_vars, now, mavlink_conn, opened, pc, frame,
                   last_calculation, calculation_history, solver_calls,
                   mavlink_available, heard, service, handles>>

(***************************************************************************)
(* MAVLinkConnection.connect and disconnect, through the controller        *)
(***************************************************************************)
\* The transport handle a MAVLinkConnection refers to, as a set.
HandleOf(conn) ==
    IF IsNone(conn.connection) THEN {} ELSE {Val(conn.connection)}

\* connect up to the blocking wait_heartbeat: the early return without
\* pymavlink, the transport constructor raising, or a new handle stored
\* over whatever self.connection held. Nothing closes the handle that the
\* controller in use referred to before and no longer does; whether the
\* interpreter finalizes it is not decided by the program.
ConnectStart(conn, limit, timeout) ==
    \E constructed \in BOOLEAN :
        /\ pc = "idle"
        /\ opened < limit
        /\ call' = [op |-> "connect_to_aircraft", timeout |-> timeout]
        /\ IF ~mavlink_available
           THEN /\ returned' = ReturnValue(FALSE)
                /\ mavlink_conn' = conn
                /\ UNCHANGED <<opened, hb_pending, pc, frame>>
           ELSE IF constructed
           THEN /\ mavlink_conn' = [conn EXCEPT !.connection = Some(opened + 1)]
                /\ opened' = opened + 1
                /\ hb_pending' = FALSE
                /\ pc' = "wait_heartbeat"
                /\ frame' = [NoFrame EXCEPT !.deadline = now + timeout]
                /\ returned' = Pending
           ELSE /\ mavlink_conn' = [conn EXCEPT !.is_connected = FALSE]
                /\ returned' = ReturnValue(FALSE)
                /\ UNCHANGED <<opened, hb_pending, pc, frame>>
        /\ \E finalized \in BOOLEAN :
               LET dropped == HandleOf(mavlink_conn) \ HandleOf(mavlink_conn')
                   new == HandleOf(mavlink_conn') \ HandleOf(mavlink_conn)
               IN handles' = (handles \ (IF finalized THEN dropped ELSE {}))
                                 \cup new
        /\ UNCHANGED <<pinned, now, solver_calls, mavlink_available, heard>>

\* controller.connect_to_aircraft(timeout) on the controller in use.
ConnectBegin ==
    \E timeout \in ConnectTimeouts :
        /\ ConnectStart(mavlink_conn, MaxOpens, timeout)
        /\ UNCHANGED <<calculator, last_calculation, calculation_history,
                       service>>

\* wait_heartbeat returns a heartbeat.
ConnectHeartbeat ==
    /\ pc = "wait_heartbeat"
    /\ hb_pending
    /\ hb_pending' = FALSE
    /\ mavlink_conn' = [mavlink_conn EXCEPT !.is_connected = TRUE,
                                            !.last_heartbeat = now]
    /\ returned' = ReturnValue(TRUE)
    /\ pc' = "idle"
    /\ frame' = NoFrame
    /\ UNCHANGED <<call, calculator, pinned, now, opened, last_calculation,
                   calculation_history, solver_calls, mavlink_available, heard, service, handles>>

\* wait_heartbeat runs out of time and returns None.
ConnectTimeout ==
    /\ pc = "wait_heartbeat"
    /\ ~hb_pending
    /\ now >= frame.deadline
    /\ returned' = ReturnValue(FALSE)
    /\ pc' = "idle"
    /\ frame' = NoFrame
    /\ UNCHANGED <<call, calculator, pinned, now, mavlink_conn, opened,
                   hb_pending, last_calculation, calculation_history,
                   solver_calls, mavlink_available, heard, service, handles>>

\* wait_heartbeat raises.
ConnectError ==
    /\ pc = "wait_heartbeat"
    /\ mavlink_conn' = [mavlink_conn EXCEPT !.is_connected = FALSE]
    /\ returned' = ReturnValue(FALSE)
    /\ pc' = "idle"
    /\ frame' = NoFrame
    /\ UNCHANGED <<call, calculator, pinned, now, opened, hb_pending,
                   last_calculation, calculation_history, solver_calls,
                   mavlink_available, heard, service, handles>>

\* controller.cleanup(): mavlink_conn.disconnect()
Disconnect ==
    /\ pc = "idle"
    /\ call' = [op |-> "cleanup"]
    /\ returned' = NoneType
    /\ \E close_raises \in BOOLEAN, released \in BOOLEAN :
           /\ close_raises \/ released
           /\ mavlink_conn' = disconnect(mavlink_conn, close_raises)
           /\ handles' = IF released THEN handles \ HandleOf(mavlink_conn)
                         ELSE handles
    /\ hb_pending' = (hb_pending /\ ~IsNone(mavlink_conn'.connection))
    /\ UNCHANGED <<calculator, pinned, now, opened, pc, frame,
                   last_calculation, calculation_history, solver_calls,
                   mavlink_available, heard, service>>

(***************************************************************************)
(* BombReleaseController.calculate_bomb_release, step by step              *)
(***************************************************************************)
\* The controller's own failure results leave everything else alone.
ControllerReturns(result) ==
    /\ returned' = result
    /\ pc' = "idle"
    /\ frame' = NoFrame

\* The result dictionary is built and the connection checked; limit bounds
\* the number of calls that have reached the solver.
ReleaseStart(limit) ==
    \E target_pos \in ControllerTargets, rx \in HeartbeatRx(hb_pending) :
        LET c == check_connection(mavlink_conn, now, rx)
        IN /\ pc = "idle"
           /\ solver_calls < limit
           /\ call' = [op |-> "calculate_bomb_release",
                       target_pos |-> target_pos]
           /\ mavlink_conn' = c.conn
           /\ hb_pending' = (hb_pending /\ ~c.consumed)
           /\ IF ~c.ret
              THEN ControllerReturns(ControllerFailure(MsgNotConnected, now))
              ELSE /\ returned' = Pending
                   /\ pc' = "get_flight_data"
                   /\ frame' = [NoFrame EXCEPT !.target_pos = target_pos,
                                               !.timestamp = now]
           /\ UNCHANGED <<calculator, pinned, now, opened, last_calculation,
                          calculation_history, mavlink_available, heard,
                          service, handles>>

ReleaseBegin ==
    /\ ReleaseStart(MaxSolves)
    /\ UNCHANGED solver_calls

\* get_complete_flight_data starts its clock; get_position_data checks the
\* connection and begins its blocking receive with half the budget.
PositionBegin ==
    \E rx \in HeartbeatRx(hb_pending) :
        LET c == check_connection(mavlink_conn, now, rx)
        IN /\ pc = "get_flight_data"
           /\ mavlink_conn' = c.conn
           /\ hb_pending' = (hb_pending /\ ~c.consumed)
           /\ IF ~c.ret
              THEN ControllerReturns(
                       ControllerFailure(MsgNoFlightData, frame.timestamp))
              ELSE /\ returned' = Pending
                   /\ pc' = "recv_position"
                   /\ frame' = [frame EXCEPT
                                   !.start_time = now,
                                   !.deadline =
                                       now + half_timeout_of(FLIGHT_DATA_TIMEOUT)]
           /\ UNCHANGED <<call, calculator, pinned, now, opened,
                          last_calculation, calculation_history, solver_calls,
                          mavlink_available, heard, service, handles>>

\* The blocking receive of GLOBAL_POSITION_INT ends: with a message before
\* the deadline, with None at the deadline, or with None after an error.
\* Reading up to the message may drop a heartbeat buffered before it.
PositionReceived ==
    \E msg \in {Some(m) : m \in PositionMessages} \cup {None},
       hb \in {hb_pending, FALSE} :
        /\ pc = "recv_position"
        /\ IsNone(msg) \/ now <= frame.deadline
        /\ hb_pending' = hb
        /\ LET position == position_from_message(msg)
           IN IF IsNone(position)
              THEN ControllerReturns(
                       ControllerFailure(MsgNoFlightData, frame.timestamp))
              ELSE /\ returned' = Pending
                   /\ pc' = "after_position"
                   /\ frame' = [frame EXCEPT !.position = Val(position),
                                               !.position_received = now]
        /\ UNCHANGED <<call, calculator, pinned, now, mavlink_conn, opened,
                       last_calculation, calculation_history, solver_calls,
                       mavlink_available, heard, service, handles>>

\* The remaining budget is computed; get_speed_data checks the connection
\* and begins its blocking receive with what is left.
SpeedBegin ==
    \E rx \in HeartbeatRx(hb_pending) :
        LET remaining_timeout ==
                remaining_timeout_of(FLIGHT_DATA_TIMEOUT, frame.start_time, now)
            c == check_connection(mavlink_conn, now, rx)
        IN /\ pc = "after_position"
           /\ IF remaining_timeout <= 0
              THEN /\ ControllerReturns(
                          ControllerFailure(MsgNoFlightData, frame.timestamp))
                   /\ UNCHANGED <<mavlink_conn, hb_pending>>
              ELSE /\ mavlink_conn' = c.conn
                   /\ hb_pending' = (hb_pending /\ ~c.consumed)
                   /\ IF ~c.ret
                      THEN ControllerReturns(
                               ControllerFailure(MsgNoFlightData,
                                                 frame.timestamp))
                      ELSE /\ returned' = Pending
                           /\ pc' = "recv_speed"
                           /\ frame' = [frame EXCEPT
                                           !.deadline = now + remaining_timeout]
           /\ UNCHANGED <<call, calculator, pinned, now, opened,
                          last_calculation, calculation_history, solver_calls,
                          mavlink_available, heard, service, handles>>

\* The blocking receive of VFR_HUD ends; on a valid reading the FlightData
\* is stamped with the clock.
SpeedReceived ==
    \E msg \in {Some(m) : m \in SpeedMessages} \cup {None},
       hb \in {hb_pending, FALSE} :
        /\ pc = "recv_speed"
        /\ IsNone(msg) \/ now <= frame.deadline
        /\ hb_pending' = hb
        /\ LET speed == speed_from_message(msg)
           IN IF IsNone(speed)
              THEN ControllerReturns(
                       ControllerFailure(MsgNoFlightData, frame.timestamp))
              ELSE /\ returned' = Pending
                   /\ pc' = "check_valid"
                   /\ frame' = [frame EXCEPT
                                   !.flight_data =
                                       FlightData(frame.position, Val(speed),
                                                  now)]
        /\ UNCHANGED <<call, calculator, pinned, now, mavlink_conn, opened,
                       last_calculation, calculation_history, solver_calls,
                       mavlink_available, heard, service, handles>>

\* flight_data.is_valid(), then the solver and the history.
ValidateAndSolve ==
    /\ pc = "check_valid"
    /\ IF ~is_valid(frame.flight_data, now)
       THEN /\ ControllerReturns(ControllerFailure(MsgStale, frame.timestamp))
            /\ UNCHANGED <<calculator, last_calculation, calculation_history,
                           solver_calls>>
       ELSE LET calc_result ==
                    calculate_release_point(calculator,
                                            frame.flight_data.position,
                                            frame.target_pos,
                                            frame.flight_data.speed)
            IN /\ calculator' =
                      calculator_after_release_point(
                          calculator, frame.flight_data.position,
                          frame.target_pos, frame.flight_data.speed)
               /\ last_calculation' = calc_result
               /\ calculation_history' =
                      history_append(calculation_history,
                                     [timestamp |-> now,
                                      flight_data |-> frame.flight_data,
                                      target_pos |-> frame.target_pos,
                                      result |-> calc_result])
               /\ solver_calls' = solver_calls + 1
               /\ ControllerReturns(calc_result)
    /\ UNCHANGED <<call, pinned, now, mavlink_conn, opened, hb_pending,
                   mavlink_available, heard, service, handles>>

\* The solver called directly while the controller is idle.
DirectSolve ==
    \E args \in DirectArguments :
        /\ Solve(args[1], args[2], args[3])
        /\ UNCHANGED pinned

Next ==
    \/ Tick
    \/ HeartbeatArrives
    \/ ConnectBegin
    \/ ConnectHeartbeat
    \/ ConnectTimeout
    \/ ConnectError
    \/ Disconnect
    \/ ReleaseBegin
    \/ PositionBegin
    \/ PositionReceived
    \/ SpeedBegin
    \/ SpeedReceived
    \/ ValidateAndSolve
    \/ DirectSolve

Spec == Init /\ [][Next]_vars

(***************************************************************************)
(* The session of one MAVLinkConnection: connect, check, pull, disconnect  *)
(***************************************************************************)
\* A HEARTBEAT reaches the open transport; the moment is noted.
HeartbeatHeard ==
    /\ ~IsNone(mavlink_conn.connection)
    /\ ~hb_pending \/ heard # now
    /\ hb_pending' = TRUE
    /\ heard' = now
    /\ UNCHANGED <<solver_vars, now, mavlink_conn, opened, pc, frame,
                   last_calculation, calculation_history, solver_calls,
                   mavlink_available, service, handles>>

\* connect_to_aircraft again on the same controller.
LinkConnectBegin ==
    \E timeout \in ConnectTimeouts :
        /\ ConnectStart(mavlink_conn, MaxLinkOpens, timeout)
        /\ UNCHANGED <<calculator, last_calculation, calculation_history,
                       service>>

\* The last call was a check_connection that found the session connected
\* and returned False.
ReportedDegraded ==
    /\ call.op = "check_connection"
    /\ returned = ReturnValue(FALSE)
    /\ call.before.is_connected
    /\ ~IsNone(call.before.connection)

\* mavlink_conn.check_connection() called by itself, as monitor_connection
\* does.
CheckConnection ==
    \E rx \in HeartbeatRx(hb_pending) :
        LET c == check_connection(mavlink_conn, now, rx)
        IN /\ pc = "idle"
           /\ call' = [op |-> "check_connection", at |-> now, rx |-> rx,
                       before |-> mavlink_conn, heard |-> heard,
                       after_degraded |-> ReportedDegraded]
           /\ returned' = ReturnValue(c.ret)
           /\ mavlink_conn' = c.conn
           /\ hb_pending' = (hb_pending /\ ~c.consumed)
           /\ UNCHANGED <<calculator, pinned, now, opened, pc, frame,
                          last_calculation, calculation_history, solver_calls,
                          mavlink_available, heard, service, handles>>

\* mavlink_conn.disconnect() called by itself.
LinkDisconnect ==
    \E close_raises \in BOOLEAN, released \in BOOLEAN :
        /\ pc = "idle"
        /\ close_raises \/ released
        /\ handles' = IF released THEN handles \ HandleOf(mavlink_conn)
                      ELSE handles
        /\ call' = [op |-> "disconnect", close_raises |-> close_raises,
                    before |-> mavlink_conn]
        /\ returned' = NoneType
        /\ mavlink_conn' = disconnect(mavlink_conn, close_raises)
        /\ hb_pending' = (hb_pending /\ ~IsNone(mavlink_conn'.connection))
        /\ UNCHANGED <<calculator, pinned, now, opened, pc, frame,
                       last_calculation, calculation_history, solver_calls,
                       mavlink_available, heard, service>>

NextLink ==
    \/ Tick
    \/ HeartbeatHeard
    \/ LinkConnectBegin
    \/ ConnectHeartbeat
    \/ ConnectTimeout
    \/ ConnectError
    \/ CheckConnection
    \/ LinkDisconnect
    \/ ReleaseBegin
    \/ PositionBegin
    \/ PositionReceived
    \/ SpeedBegin
    \/ SpeedReceived

SpecLink == Init /\ [][NextLink]_vars

(***************************************************************************)
(* The solver called again and again on one calculator                     *)
(***************************************************************************)
\* The caller keeps the call just made and its result, to compare later,
\* and notes how the different calls made since then ended.
Pin ==
    /\ call.op = "calculate_release_point"
    /\ pinned' = [call |-> call, returned |-> returned, between |-> {}]
    /\ UNCHANGED <<call, returned, calculator, controller_vars>>

PureSolve ==
    \E aircraft_pos \in PureAircraft, target_pos \in PureTargets,
       speed_data \in PureSpeeds :
        /\ Solve(aircraft_pos, target_pos, speed_data)
        /\ pinned' = IF HasAttr(pinned, "call") /\ call' # pinned.call
                     THEN [pinned EXCEPT
                              !.between = @ \cup {returned'.success}]
                     ELSE pinned

NextPure == Pin \/ PureSolve

SpecPure == Init /\ [][NextPure]_vars

(***************************************************************************)
(* The flight data pull over a clock long enough to use up its budget      *)
(***************************************************************************)
\* A run ends where get_complete_flight_data has returned its FlightData.
PullTick ==
    /\ now < LIVENESS_WINDOW + 1 + MaxPullTicks
    /\ now' = now + 1
    /\ UNCHANGED <<solver_vars, mavlink_conn, opened, hb_pending, pc, frame,
                   last_calculation, calculation_history, solver_calls,
                   mavlink_available, heard, service, handles>>

NextPull ==
    \/ PullTick
    \/ HeartbeatArrives
    \/ ConnectBegin
    \/ ConnectHeartbeat
    \/ ReleaseBegin
    \/ PositionBegin
    \/ PositionReceived
    \/ SpeedBegin
    \/ SpeedReceived

SpecPull == Init /\ [][NextPull]_vars

(***************************************************************************)
(* The flight data pull when only waiting takes time                       *)
(***************************************************************************)
\* The clock advances between calls and while a blocking wait or receive
\* has not reached the timeout it was given; the statements in between
\* take no time.
DeadlineTick ==
    /\ now < LIVENESS_WINDOW + 1 + MaxPullTicks
    /\ \/ pc = "idle"
       \/ /\ pc \in {"wait_heartbeat", "recv_position", "recv_speed"}
          /\ now < frame.deadline
    /\ now' = now + 1
    /\ UNCHANGED <<solver_vars, mavlink_conn, opened, hb_pending, pc, frame,
                   last_calculation, calculation_history, solver_calls,
                   mavlink_available, heard, service, handles>>

NextDeadline ==
    \/ DeadlineTick
    \/ HeartbeatArrives
    \/ ConnectBegin
    \/ ConnectHeartbeat
    \/ ReleaseBegin
    \/ PositionBegin
    \/ PositionReceived
    \/ SpeedBegin
    \/ SpeedReceived

SpecDeadline == Init /\ [][NextDeadline]_vars

(***************************************************************************)
(* One controller solving again and again                                  *)
(***************************************************************************)
\* calculate_bomb_release called often enough to fill the history; the
\* clock stands still, so that every pull is fresh.
HistoryReleaseBegin ==
    /\ ReleaseStart(MaxHistorySolves)
    /\ UNCHANGED solver_calls

NextHistory ==
    \/ HeartbeatArrives
    \/ ConnectBegin
    \/ ConnectHeartbeat
    \/ HistoryReleaseBegin
    \/ PositionBegin
    \/ PositionReceived
    \/ SpeedBegin
    \/ SpeedReceived
    \/ ValidateAndSolve

SpecHistory == Init /\ [][NextHistory]_vars

(***************************************************************************)
(* LinuxBombReleaseService.connect_mavlink                                 *)
(***************************************************************************)
\* mavlink_settings of the configuration: the default one, one without
\* alternatives, one with a single alternative. The timeouts are short so
\* that several attempts can time out within the clock's bound.
ServiceConfigs ==
    {[default_connection |-> "/dev/ttyUSB0",
      alternative_connections |->
          <<"/dev/ttyAMA0", "/dev/ttyS0", "udp:127.0.0.1:14550">>,
      connection_timeout |-> 2],
     [default_connection |-> "/dev/ttyUSB0",
      alternative_connections |-> <<>>,
      connection_timeout |-> 2],
     [default_connection |-> "udp:127.0.0.1:14550",
      alternative_connections |-> <<"/dev/ttyUSB0">>,
      connection_timeout |-> 1]}

\* connections = [default_connection] extended by alternative_connections
connections_of(mavlink_config) ==
    <<mavlink_config.default_connection>>
        \o mavlink_config.alternative_connections

\* A loop that goes on to the next target after a connect that succeeded.
connect_mavlink_ignoring_success(connections, attempted, connected) ==
    IF Len(attempted) < Len(connections) THEN "attempt"
    ELSE IF connected THEN "return_true"
    ELSE "return_false"

\* Where the for loop of connect_mavlink goes from the top of an iteration
\* or from the return of connect_to_aircraft: connected tells what the
\* connect of the last attempted target returned.
connect_mavlink_step(connections, attempted, connected) ==
    IF attempted = <<>> THEN "attempt"
    ELSE IF connected THEN "return_true"
    ELSE IF Len(attempted) < Len(connections) THEN "attempt"
    ELSE "return_false"

\* The step the loop of the service takes next.
ServiceStep ==
    connect_mavlink_step(service.connections, service.attempted,
                         returned = ReturnValue(TRUE))

\* The targets logged as failed, once the loop has seen the last connect
\* return False.
FailedSoFar ==
    IF service.attempted # <<>> /\ returned = ReturnValue(FALSE)
    THEN Append(service.failed, service.attempted[Len(service.attempted)])
    ELSE service.failed

\* The service as connect_mavlink has it before the first iteration.
connect_mavlink_begin(svc, connections, connection_timeout) ==
    [svc EXCEPT !.connecting = TRUE,
                !.connections = connections,
                !.connection_timeout = connection_timeout,
                !.attempted = <<>>,
                !.failed = <<>>,
                !.result = "none",
                !.calls = @ + 1]

\* connect_mavlink is called (by start or by monitor_connection): the
\* module is importable, the connections list is built. The module
\* mavlink_integration is part of the repository, so the early return on
\* MAVLINK_AVAILABLE being false is not taken.
ReconnectBegin ==
    \E mavlink_config \in ServiceConfigs :
        /\ pc = "idle"
        /\ ~service.connecting
        /\ service.calls < MaxReconnects
        /\ call' = [op |-> "connect_mavlink"]
        /\ returned' = Pending
        /\ service' = connect_mavlink_begin(
                          service, connections_of(mavlink_config),
                          mavlink_config.connection_timeout)
        /\ UNCHANGED <<calculator, pinned, now, mavlink_conn, opened,
                       hb_pending, pc, frame, last_calculation,
                       calculation_history, solver_calls, mavlink_available,
                       heard, handles>>

\* One iteration: a new BombReleaseController for the next target replaces
\* self.controller, and its connect_to_aircraft begins.
ReconnectAttempt ==
    /\ service.connecting
    /\ pc = "idle"
    /\ ServiceStep = "attempt"
    /\ Len(service.attempted) < Len(service.connections)
    /\ ConnectStart(MAVLinkConnection, opened + 1, service.connection_timeout)
    /\ calculator' = BombReleaseCalculator
    /\ last_calculation' = NoneType
    /\ calculation_history' = <<>>
    /\ service' = [service EXCEPT
                      !.attempted =
                          Append(@, service.connections[Len(@) + 1]),
                      !.failed = FailedSoFar]

\* connect_to_aircraft returned True: connect_mavlink returns True.
ReconnectSucceeds ==
    /\ service.connecting
    /\ pc = "idle"
    /\ ServiceStep = "return_true"
    /\ call' = [op |-> "connect_mavlink"]
    /\ returned' = ReturnValue(TRUE)
    /\ service' = [service EXCEPT !.connecting = FALSE,
                                  !.result = "connected"]
    /\ UNCHANGED <<calculator, pinned, now, mavlink_conn, opened, hb_pending,
                   pc, frame, last_calculation, calculation_history,
                   solver_calls, mavlink_available, heard, handles>>

\* The list is used up: connect_mavlink returns False.
ReconnectFails ==
    /\ service.connecting
    /\ pc = "idle"
    /\ ServiceStep = "return_false"
    /\ call' = [op |-> "connect_mavlink"]
    /\ returned' = ReturnValue(FALSE)
    /\ service' = [service EXCEPT !.connecting = FALSE,
                                  !.failed = FailedSoFar,
                                  !.result = "failed"]
    /\ UNCHANGED <<calculator, pinned, now, mavlink_conn, opened, hb_pending,
                   pc, frame, last_calculation, calculation_history,
                   solver_calls, mavlink_available, heard, handles>>

NextReconnect ==
    \/ PullTick
    \/ HeartbeatArrives
    \/ ReconnectBegin
    \/ ReconnectAttempt
    \/ ConnectHeartbeat
    \/ ConnectTimeout
    \/ ConnectError
    \/ ReconnectSucceeds
    \/ ReconnectFails

SpecReconnect == Init /\ [][NextReconnect]_vars

(***************************************************************************)
(* LinuxBombReleaseService: start, the monitor thread, a caller, stop      *)
(***************************************************************************)
\* The threads are the one that runs start (and, from a signal handler,
\* stop), the monitor thread of run_service_loop and a thread calling
\* calculate_bombing_solution. The program holds no lock: every action
\* below is enabled by the position of its own thread alone. One service
\* object is started once. The controller of the model is the one
\* self.controller refers to; a connect_mavlink goes through its loop at
\* moments at which no call on that controller is in flight, and
\* calculate_bombing_solution is called while no connect_mavlink is in
\* its loop.

\* self.controller is not None: a connect_mavlink has reached its first
\* iteration.
ControllerExists ==
    service.calls > 1 \/ service.attempted # <<>>

\* get_complete_flight_data is between its first receive and its return.
PullInFlight ==
    pc \in {"recv_position", "after_position", "recv_speed"}

\* start(): self.running = True, then connect_mavlink() with the
\* configuration the service loaded.
ServiceStart ==
    \E mavlink_config \in ServiceConfigs, auto_reconnect \in BOOLEAN :
        /\ ~service.running
        /\ service.stop = "none"
        /\ service.monitor = "none"
        /\ service.calls = 0
        /\ pc = "idle"
        /\ call' = [op |-> "connect_mavlink"]
        /\ returned' = Pending
        /\ service' = [connect_mavlink_begin(
                           service, connections_of(mavlink_config),
                           mavlink_config.connection_timeout)
                          EXCEPT !.running = TRUE,
                                 !.auto_reconnect = auto_reconnect]
        /\ UNCHANGED <<calculator, pinned, now, mavlink_conn, opened,
                       hb_pending, pc, frame, last_calculation,
                       calculation_history, solver_calls, mavlink_available,
                       heard, handles>>

\* run_service_loop, once the connect_mavlink of start has returned: the
\* monitor thread is started.
MonitorStart ==
    /\ service.monitor = "none"
    /\ service.calls > 0
    /\ ~service.connecting
    /\ service' = [service EXCEPT !.monitor = "loop"]
    /\ UNCHANGED <<solver_vars, now, mavlink_conn, opened, hb_pending, pc,
                   frame, last_calculation, calculation_history,
                   solver_calls, mavlink_available, heard, handles>>

\* while self.running: false, the thread ends.
MonitorExit ==
    /\ service.monitor = "loop"
    /\ ~service.running
    /\ service' = [service EXCEPT !.monitor = "exited"]
    /\ UNCHANGED <<solver_vars, now, mavlink_conn, opened, hb_pending, pc,
                   frame, last_calculation, calculation_history,
                   solver_calls, mavlink_available, heard, handles>>

\* while self.running: true, self.controller is there, and the thread
\* enters mavlink_conn.check_connection().
MonitorCheckBegin ==
    /\ service.monitor = "loop"
    /\ service.running
    /\ ControllerExists
    /\ service' = [service EXCEPT !.monitor = "check_connection"]
    /\ UNCHANGED <<solver_vars, now, mavlink_conn, opened, hb_pending, pc,
                   frame, last_calculation, calculation_history,
                   solver_calls, mavlink_available, heard, handles>>

\* check_connection returns: on False with auto_reconnect the thread
\* calls connect_mavlink, otherwise it goes to sleep.
MonitorCheckEnd ==
    \E rx \in HeartbeatRx(hb_pending) :
        LET c == check_connection(mavlink_conn, now, rx)
            reconnects == ~c.ret /\ service.auto_reconnect
        IN /\ service.monitor = "check_connection"
           /\ reconnects => service.calls < MaxServiceConnects
           /\ mavlink_conn' = c.conn
           /\ hb_pending' = (hb_pending /\ ~c.consumed)
           /\ service' =
                  IF reconnects
                  THEN [connect_mavlink_begin(
                            service, service.connections,
                            service.connection_timeout)
                           EXCEPT !.monitor = "connect_mavlink"]
                  ELSE [service EXCEPT !.monitor = "sleep",
                                       !.wake = now + RECONNECT_INTERVAL]
           /\ UNCHANGED <<solver_vars, now, opened, pc, frame,
                          last_calculation, calculation_history,
                          solver_calls, mavlink_available, heard, handles>>

\* The connect_mavlink of the monitor has returned; the thread sleeps.
MonitorReconnected ==
    /\ service.monitor = "connect_mavlink"
    /\ ~service.connecting
    /\ service' = [service EXCEPT !.monitor = "sleep",
                                  !.wake = now + RECONNECT_INTERVAL]
    /\ UNCHANGED <<solver_vars, now, mavlink_conn, opened, hb_pending, pc,
                   frame, last_calculation, calculation_history,
                   solver_calls, mavlink_available, heard, handles>>

\* time.sleep(reconnect_interval) is over.
MonitorWake ==
    /\ service.monitor = "sleep"
    /\ now >= service.wake
    /\ service' = [service EXCEPT !.monitor = "loop"]
    /\ UNCHANGED <<solver_vars, now, mavlink_conn, opened, hb_pending, pc,
                   frame, last_calculation, calculation_history,
                   solver_calls, mavlink_available, heard, handles>>

\* calculate_bombing_solution: self.controller is there and its
\* calculate_bomb_release begins.
ServiceReleaseBegin ==
    /\ ControllerExists
    /\ ~service.connecting
    /\ ReleaseStart(MaxSolves)
    /\ UNCHANGED solver_calls

\* stop(), from the finally of start or from signal_handler: the service
\* is running, self.running = False.
ServiceStopBegin ==
    /\ service.running
    /\ service.stop = "none"
    /\ service' = [service EXCEPT !.running = FALSE, !.stop = "cleanup"]
    /\ UNCHANGED <<solver_vars, now, mavlink_conn, opened, hb_pending, pc,
                   frame, last_calculation, calculation_history,
                   solver_calls, mavlink_available, heard, handles>>

\* stop() goes on: cleanup() of the controller self.controller refers to
\* at this moment, if there is one, and stop returns.
ServiceStopCleanup ==
    \E close_raises \in BOOLEAN, released \in BOOLEAN :
        /\ service.stop = "cleanup"
        /\ close_raises \/ released
        /\ IF ControllerExists
           THEN /\ mavlink_conn' = disconnect(mavlink_conn, close_raises)
                /\ handles' = IF released
                              THEN handles \ HandleOf(mavlink_conn)
                              ELSE handles
                /\ hb_pending' = FALSE
           ELSE UNCHANGED <<mavlink_conn, handles, hb_pending>>
        /\ service' = [service EXCEPT !.stop = "returned"]
        /\ UNCHANGED <<solver_vars, now, opened, pc, frame, last_calculation,
                       calculation_history, solver_calls, mavlink_available,
                       heard>>

\* start, the monitor thread and stop over the clock.
NextService ==
    \/ Tick
    \/ HeartbeatArrives
    \/ ServiceStart
    \/ ReconnectAttempt
    \/ ConnectHeartbeat
    \/ ConnectTimeout
    \/ ConnectError
    \/ ReconnectSucceeds
    \/ ReconnectFails
    \/ MonitorStart
    \/ MonitorExit
    \/ MonitorCheckBegin
    \/ MonitorCheckEnd
    \/ MonitorReconnected
    \/ MonitorWake
    \/ ServiceStopBegin
    \/ ServiceStopCleanup

SpecService == Init /\ [][NextService]_vars

\* start, the monitor thread and a caller of calculate_bombing_solution
\* within one reading of the clock: what the threads can do before
\* time.time() changes.
NextMonitor ==
    \/ HeartbeatArrives
    \/ ServiceStart
    \/ ReconnectAttempt
    \/ ConnectHeartbeat
    \/ ConnectError
    \/ ReconnectSucceeds
    \/ ReconnectFails
    \/ MonitorStart
    \/ MonitorCheckBegin
    \/ MonitorCheckEnd
    \/ MonitorReconnected
    \/ ServiceReleaseBegin
    \/ PositionBegin
    \/ PositionReceived
    \/ SpeedBegin
    \/ SpeedReceived
    \/ ValidateAndSolve

SpecMonitor == Init /\ [][NextMonitor]_vars

(***************************************************************************)
(* Properties of the solver                                                *)
(***************************************************************************)
\* The last call was calculate_release_point on a Position, a Position and
\* a SpeedData.
SolvedOnObjects ==
    /\ call.op = "calculate_release_point"
    /\ HasAttr(call.aircraft_pos, "altitude")
    /\ HasAttr(call.target_pos, "altitude")
    /\ HasAttr(call.speed_data, "airspeed")

\* C1: every successful result of calculate_release_point has a release
\* countdown of at least zero and a release distance of at most twice the
\* target distance.
C1_SuccessWithinBounds ==
    (call.op = "calculate_release_point" /\ returned.success) =>
        /\ Le(0, Val(returned.release_time))
        /\ Le(Val(returned.release_distance),
              FMul(2, returned.calculations.target_distance))

\* C2: of the five conditions (altitude below the minimum, target beyond
\* the maximum distance, no ballistic solution, release distance above twice
\* the target distance, negative countdown) the earliest one that holds
\* decides the failure that calculate_release_point returns.
C2_EarliestCheckDecides ==
    SolvedOnObjects =>
        LET aircraft_pos == call.aircraft_pos
            target_pos == call.target_pos
            speed_data == call.speed_data
            low == Lt(aircraft_pos.altitude, 50000)
            db == calculate_distance_and_bearing(aircraft_pos, target_pos)
            far == Gt(db[1], 50000000)
            wind == calculate_wind_effect(speed_data.airspeed,
                                          speed_data.groundspeed, db[2])
            flight == calculate_ballistic_trajectory(
                          speed_data.groundspeed,
                          FSub(aircraft_pos.altitude, target_pos.altitude),
                          db[1], wind[1])
            standoff == release_distance_of(speed_data.groundspeed, Val(flight))
            unstable == Gt(standoff, FMul(db[1], 2))
            missed == Lt(release_time_of(db[1], standoff,
                                         speed_data.groundspeed), 0)
        IN /\ low =>
                /\ returned.error_code = "INVALID_COORDINATES"
                /\ returned.message = MsgAltitudeTooLow
           /\ (~low /\ far) =>
                /\ returned.error_code = "TARGET_TOO_FAR"
                /\ returned.message = MsgTargetTooFar
           /\ (~low /\ ~far /\ IsNone(flight)) =>
                returned.message = MsgNoTrajectory
           /\ (~low /\ ~far /\ ~IsNone(flight) /\ unstable) =>
                /\ returned.error_code = "NUMERICAL_INSTABILITY"
                /\ returned.message = MsgUnstable
           /\ (~low /\ ~far /\ ~IsNone(flight) /\ ~unstable /\ missed) =>
                returned.message = MsgWindowMissed

\* An aircraft at 10 m with the target beyond the maximum distance: two
\* conditions hold, the altitude failure is returned.
C2_Witness ==
    /\ SolvedOnObjects
    /\ call.aircraft_pos.altitude = 10000
    /\ <<call.target_pos.latitude, call.target_pos.longitude>> = TargetC
    /\ returned.message = MsgAltitudeTooLow

\* C3: calculate_ballistic_trajectory returns None or a flight time t with
\* 0 < t <= 60 s, the 10% margin included.
C3_FlightTimeWithinGate ==
    call.op = "calculate_ballistic_trajectory" =>
        \/ IsNone(returned.value)
        \/ /\ Lt(0, Val(returned.value))
           /\ Le(Val(returned.value), 6000)

\* C4: an aircraft altitude below 50 m fails with the altitude failure for
\* every target and speed; exactly 50 m passes the altitude check and, with
\* the scenario's target and speeds, the solve succeeds.
C4_MinimumAltitudeBoundary ==
    SolvedOnObjects =>
        /\ Lt(call.aircraft_pos.altitude, 50000) =>
              /\ ~returned.success
              /\ returned.error_code = "INVALID_COORDINATES"
              /\ returned.message = MsgAltitudeTooLow
        /\ call.aircraft_pos.altitude = 50000 =>
              returned.message # MsgAltitudeTooLow
        /\ ( /\ call.aircraft_pos.altitude = 50000
             /\ call.target_pos = ScenarioTarget
             /\ call.speed_data = ScenarioSpeed ) =>
              returned.success

C4_Witness ==
    /\ SolvedOnObjects
    /\ call.aircraft_pos.altitude = 50000
    /\ call.target_pos = ScenarioTarget
    /\ call.speed_data = ScenarioSpeed
    /\ returned.success

\* C5: with the scenario's inputs (500 m above a ground target about 1.5 km
\* away, airspeed 50 m/s, groundspeed 45 m/s) the solve succeeds with a
\* countdown above zero and a flight time of at most 60 s.
C5_ScenarioSucceeds ==
    ( /\ call.op = "calculate_release_point"
      /\ call.aircraft_pos = ScenarioAircraft
      /\ call.target_pos = ScenarioTarget
      /\ call.speed_data = ScenarioSpeed ) =>
        /\ returned.success
        /\ returned.error_code = "SUCCESS"
        /\ Gt(Val(returned.release_time), 0)
        /\ Le(Val(returned.flight_time), 6000)

C5_Witness ==
    /\ call.op = "calculate_release_point"
    /\ call.aircraft_pos = ScenarioAircraft
    /\ call.target_pos = ScenarioTarget
    /\ call.speed_data = ScenarioSpeed
    /\ returned.success
    /\ Val(returned.release_time) > 2000

\* C8: a Position with a latitude outside [-90, 90], a longitude outside
\* [-180, 180] or an altitude below 0, and a SpeedData with a speed of 0 or
\* less, is refused with an error; an object that is constructed holds the
\* values as given; the boundary values are accepted.
C8_ConstructorsRejectOutOfRange ==
    /\ call.op = "Position" =>
          /\ ( \/ Lt(call.latitude, -900000) \/ Gt(call.latitude, 900000)
               \/ Lt(call.longitude, -1800000) \/ Gt(call.longitude, 1800000)
               \/ Lt(call.altitude, 0) ) => IsRaised(returned)
          /\ ( /\ Le(-900000, call.latitude) /\ Le(call.latitude, 900000)
               /\ Le(-1800000, call.longitude) /\ Le(call.longitude, 1800000)
               /\ Le(0, call.altitude) ) => ~IsRaised(returned)
          /\ ~IsRaised(returned) =>
                returned = [latitude |-> call.latitude,
                            longitude |-> call.longitude,
                            altitude |-> call.altitude]
    /\ call.op = "SpeedData" =>
          /\ (Le(call.airspeed, 0) \/ Le(call.groundspeed, 0)) =>
                IsRaised(returned)
          /\ (Gt(call.airspeed, 0) /\ Gt(call.groundspeed, 0)) =>
                ~IsRaised(returned)
          /\ ~IsRaised(returned) =>
                returned = [airspeed |-> call.airspeed,
                            groundspeed |-> call.groundspeed]

\* A latitude just above 90 degrees with everything else in range is refused.
C8_Witness ==
    /\ call.op = "Position"
    /\ call.latitude = 900001
    /\ call.longitude = 1800000
    /\ call.altitude = 0
    /\ IsRaised(returned)

\* C10: the failure for a negative countdown has an error code of its own,
\* different from the one returned when the ballistic model has no solution.
C10_WindowMissedHasOwnCode ==
    (call.op = "calculate_release_point"
       /\ returned.message = MsgWindowMissed) =>
        returned.error_code #
            calculate_release_point(
                BombReleaseCalculator, ScenarioAircraft,
                Position(TargetA[1], TargetA[2], 500000),
                ScenarioSpeed).error_code

\* C6: a solve with the arguments of an earlier solve returns the result
\* the earlier one returned, whatever was solved in between, and no solve
\* changes the calculator.
C6_SameArgumentsSameResult ==
    (call.op = "calculate_release_point" /\ HasAttr(pinned, "call")
       /\ pinned.call = call) =>
        returned = pinned.returned

C7_StaleFlightDataRefused ==
    [][(pc = "check_valid" /\ pc' = "idle") =>
          IF now - frame.flight_data.timestamp >= 5
          THEN /\ ~returned'.success
               /\ returned'.message = MsgStale
               /\ solver_calls' = solver_calls
               /\ calculation_history' = calculation_history
               /\ last_calculation' = last_calculation
          ELSE /\ solver_calls' = solver_calls + 1
               /\ Len(calculation_history') = Len(calculation_history) + 1
               /\ returned' = last_calculation']_vars

C7_Witness ==
    /\ call.op = "calculate_bomb_release"
    /\ HasAttr(returned, "message")
    /\ returned.message = MsgStale
    /\ solver_calls = 0
    /\ calculation_history = <<>>

\* A result dictionary: success with a countdown, or a failure with an
\* error code other than SUCCESS, a message and no countdown.
StructuredResult(r) ==
    /\ HasAttr(r, "success") /\ HasAttr(r, "error_code") /\ HasAttr(r, "message")
    /\ r.error_code \in ErrorCode
    /\ IF r.success
       THEN HasAttr(r, "release_time") /\ ~IsNone(r.release_time)
       ELSE /\ r.error_code # "SUCCESS"
            /\ r.message # ""
            /\ HasAttr(r, "release_time") => IsNone(r.release_time)

\* C9: whatever calculate_release_point and calculate_bomb_release return is
\* a result dictionary, never an exception: a success with a countdown or a
\* failure with an error code, a message and no countdown.
C9_AlwaysStructuredResult ==
    ( /\ call.op \in {"calculate_release_point", "calculate_bomb_release"}
      /\ ~HasAttr(returned, "pending") ) =>
        StructuredResult(returned)

\* A solve without a target: the AttributeError is caught and reported.
C9_Witness ==
    /\ call.op = "calculate_release_point"
    /\ call.target_pos = NoneType
    /\ returned.message = MsgException
    /\ returned.error_code = "CALCULATION_ERROR"

(***************************************************************************)
(* Properties of the wind estimate                                         *)
(***************************************************************************)
\* C11: for one groundspeed and one wind magnitude, the effective horizontal
\* velocity of a solve with a headwind (airspeed above groundspeed) is
\* smaller than that of the solve with the tailwind of the same magnitude.
C11_HeadwindSlowerThanTailwind ==
    ( /\ SolvedOnObjects
      /\ returned.success
      /\ Gt(call.speed_data.airspeed, call.speed_data.groundspeed)
      /\ Gt(2 * call.speed_data.groundspeed, call.speed_data.airspeed) ) =>
        LET bearing == calculate_distance_and_bearing(call.aircraft_pos,
                                                      call.target_pos)[2]
            tailwind == SpeedData(2 * call.speed_data.groundspeed
                                    - call.speed_data.airspeed,
                                  call.speed_data.groundspeed)
        IN Lt(solve_effective_velocity(call.speed_data, bearing),
              solve_effective_velocity(tailwind, bearing))

(***************************************************************************)
(* Properties of the telemetry pulls                                       *)
(***************************************************************************)
\* C12: get_complete_flight_data gives the position pull at most half of its
\* 10 s, starts the speed pull only after a position was acquired and with
\* at most what is left of the 10 s, and when nothing is left it returns a
\* failure without touching the connection for a speed pull.
C12_BudgetSplitBetweenPulls ==
    [][/\ (pc # "recv_position" /\ pc' = "recv_position") =>
             /\ frame'.start_time = now
             /\ frame'.deadline - now <= 5
       /\ (pc # "recv_speed" /\ pc' = "recv_speed") =>
             /\ pc = "after_position"
             /\ HasAttr(frame.position, "latitude")
             /\ 10 - (now - frame.start_time) > 0
             /\ frame'.deadline - now <= 10 - (now - frame.start_time)
       /\ (pc = "recv_position" /\ pc' = "idle") =>
             /\ ~returned'.success
             /\ returned'.message = MsgNoFlightData
       /\ ( /\ pc = "after_position" /\ pc' # "after_position"
            /\ 10 - (now - frame.start_time) <= 0 ) =>
             /\ pc' = "idle"
             /\ ~returned'.success
             /\ returned'.message = MsgNoFlightData
             /\ mavlink_conn' = mavlink_conn
             /\ hb_pending' = hb_pending]_vars

\* A position was acquired and the whole budget has gone by.
C12_Witness ==
    /\ pc = "after_position"
    /\ HasAttr(frame.position, "latitude")
    /\ now - frame.start_time >= 10

\* C13: with receives that return within the timeout they were given, the
\* position pull returns within its 5 s, the speed pull within the budget
\* it was called with, and get_complete_flight_data within its 10 s.
C13_PullsReturnWithinTimeout ==
    [][/\ (pc = "recv_position" /\ pc' # "recv_position") =>
             now - frame.start_time <= 5
       /\ (pc = "recv_speed" /\ pc' # "recv_speed") =>
             now <= frame.deadline
       /\ ( /\ pc \in {"recv_position", "after_position", "recv_speed"}
            /\ pc' \in {"idle", "check_valid"} ) =>
             now - frame.start_time <= 10]_vars

\* The transport gave no speed message: the pull has failed at the end of
\* its 10 s.
C13_Witness ==
    /\ call.op = "calculate_bomb_release"
    /\ pc = "idle"
    /\ HasAttr(returned, "message")
    /\ returned.message = MsgNoFlightData
    /\ now - returned.timestamp = 10

(***************************************************************************)
(* The session of one MAVLinkConnection                                    *)
(***************************************************************************)
\* C14: a connect attempt that has returned False, be it for a timeout
\* without a heartbeat or for a transport error, leaves the session
\* disconnected (is_connected false), whatever the session was before the
\* attempt.
C14_FailedConnectEndsDisconnected ==
    (call.op = "connect_to_aircraft" /\ returned = ReturnValue(FALSE))
        => ~mavlink_conn.is_connected

\* C15: a check_connection on a connected session whose read did not fail
\* reports the session not live only if the transport has delivered no
\* heartbeat during the 5 s before the check, heartbeats that arrived
\* while a telemetry pull was reading from the connection included.
C15_DegradedOnlyAfterSilence ==
    (/\ call.op = "check_connection"
     /\ returned = ReturnValue(FALSE)
     /\ call.before.is_connected
     /\ ~IsNone(call.before.connection)
     /\ call.rx # "error"
     /\ opened = 1)
        => call.at - call.heard > LIVENESS_WINDOW

\* C16: a check_connection that fails on a connected session because the
\* liveness window was exceeded leaves the connection as it was
\* (is_connected, the transport handle and last_heartbeat unchanged), and
\* the next check_connection after it, if a heartbeat is available to its
\* read, returns True on the same handle and sets last_heartbeat to the
\* time of that check, with no connect in between.
C16_DegradationRecoverable ==
    /\ [](ReportedDegraded =>
            /\ mavlink_conn = call.before
            /\ call.at - call.before.last_heartbeat > LIVENESS_WINDOW)
    /\ [][(/\ ReportedDegraded
           /\ call' # call
           /\ call'.op = "check_connection"
           /\ call'.rx = "heartbeat")
              => /\ returned' = ReturnValue(TRUE)
                 /\ mavlink_conn' =
                        [call.before EXCEPT !.last_heartbeat = call'.at]
                 /\ call'.at = now
                 /\ opened' = opened]_vars

\* A session reported degraded has been found live again by the next
\* check, which read a heartbeat.
C16_Witness ==
    /\ call.op = "check_connection"
    /\ call.after_degraded
    /\ call.rx = "heartbeat"
    /\ returned = ReturnValue(TRUE)
    /\ mavlink_conn.is_connected
    /\ mavlink_conn.last_heartbeat = call.at

\* C17: whenever check_connection has returned True, last_heartbeat lies
\* within the 5 s liveness window of the time of that check, and not
\* after it.
C17_LiveWithinWindow ==
    (call.op = "check_connection" /\ returned = ReturnValue(TRUE))
        => /\ call.at - mavlink_conn.last_heartbeat <= LIVENESS_WINDOW
           /\ mavlink_conn.last_heartbeat <= call.at

\* A check that found last_heartbeat too old, read a heartbeat and
\* returned True.
C17_Witness ==
    /\ call.op = "check_connection"
    /\ returned = ReturnValue(TRUE)
    /\ call.at - call.before.last_heartbeat > LIVENESS_WINDOW
    /\ ~call.after_degraded

C19_DisconnectEndsDisconnected ==
    call.op = "disconnect"
        => /\ ~mavlink_conn.is_connected
           /\ IsNone(mavlink_conn.connection)
           /\ mavlink_conn.last_heartbeat = call.before.last_heartbeat
           /\ ~hb_pending
           /\ IsNone(call.before.connection) => mavlink_conn = call.before

\* A connected session was disconnected and closing its transport raised.
C19_Witness ==
    /\ call.op = "disconnect"
    /\ call.before.is_connected
    /\ call.close_raises
    /\ ~mavlink_conn.is_connected
    /\ IsNone(mavlink_conn.connection)

(***************************************************************************)
(* The reconnect of the service                                            *)
(***************************************************************************)
\* C20: connect_mavlink attempts the configured targets from the front of
\* the list, primary first and the alternatives in list order, each at
\* most once; every target attempted before the last one has failed; when
\* it reports success the last target attempted is the one connected and
\* no later target was attempted; when it reports failure every configured
\* target has been attempted and has failed.
C20_ReconnectThroughAlternatives ==
    /\ Len(service.attempted) <= Len(service.connections)
    /\ \A i \in 1..Len(service.attempted) :
           service.attempted[i] = service.connections[i]
    /\ Len(service.failed) <= Len(service.attempted)
    /\ \A i \in 1..Len(service.failed) :
           service.failed[i] = service.attempted[i]
    /\ Len(service.failed) >= Len(service.attempted) - 1
    /\ service.result = "connected"
           => /\ service.attempted # <<>>
              /\ Len(service.failed) = Len(service.attempted) - 1
              /\ mavlink_conn.is_connected
              /\ returned = ReturnValue(TRUE)
    /\ service.result = "failed"
           => /\ service.attempted = service.connections
              /\ service.failed = service.connections
              /\ ~mavlink_conn.is_connected
              /\ returned = ReturnValue(FALSE)

\* Of four configured targets the first two failed and the third
\* connected; the fourth was not attempted.
C20_Witness ==
    /\ service.result = "connected"
    /\ Len(service.connections) = 4
    /\ service.attempted = SubSeq(service.connections, 1, 3)
    /\ service.failed = SubSeq(service.connections, 1, 2)

(***************************************************************************)
(* The ballistic model and the solver, second part                         *)
(***************************************************************************)
\* The call just made is a calculate_ballistic_trajectory on numbers.
BallisticOnNumbers ==
    /\ call.op = "calculate_ballistic_trajectory"
    /\ ~IsNaN(call.initial_velocity)
    /\ ~IsNaN(call.height)
    /\ ~IsNaN(call.distance)
    /\ ~IsNaN(call.wind_speed)

\* C23: a flight time returned by the ballistic model is 1.1 x fall_time
\* when cruise_time > 1.2 x fall_time, and 1.1 x max(cruise_time,
\* 0.8 x fall_time) otherwise, cruise_time = 1.2 x fall_time included in
\* the second case; fall_time = sqrt(2 * height / g) and cruise_time =
\* distance / |initial_velocity + wind_speed|.
C23_FlightTimeFormula ==
    (BallisticOnNumbers /\ HasAttr(returned, "value")
                        /\ ~IsNone(returned.value))
        => LET fall_time == vertical_time_of(call.height)
               velocity == call.initial_velocity + call.wind_speed
               speed == IF velocity < 0 THEN -velocity ELSE velocity
               cruise_time == call.distance \div (10 * speed)
               slower == IF cruise_time > (8 * fall_time) \div 10
                         THEN cruise_time
                         ELSE (8 * fall_time) \div 10
           IN Val(returned.value) =
                  IF 10 * cruise_time > 12 * fall_time
                  THEN (11 * fall_time) \div 10
                  ELSE (11 * slower) \div 10

\* The cruise time is exactly 1.2 times the fall time (12 s and 10 s) and
\* the model has returned 13.2 s.
C23_Witness ==
    /\ BallisticOnNumbers
    /\ call.height = 490500
    /\ call.distance = 600000
    /\ call.initial_velocity + call.wind_speed = 50
    /\ returned = ReturnValue(Some(1320))

\* C24: the ballistic model returns None whenever the height is <= 0, the
\* distance is <= 0 or the effective horizontal velocity is (nearly) zero;
\* and calculate_release_point, for an aircraft at or above the minimum
\* release height and a target within range that is at equal or greater
\* altitude or exactly below the aircraft (distance 0), returns the failure
\* CALCULATION_ERROR "no valid ballistic trajectory", not a success and
\* not the failure of a caught exception.
C24_NoSolutionIsUnresolvable ==
    /\ (/\ call.op = "calculate_ballistic_trajectory"
        /\ \/ Le(call.height, 0)
           \/ Le(call.distance, 0)
           \/ call.initial_velocity + call.wind_speed = 0)
           => returned = ReturnValue(None)
    /\ SolvedOnObjects =>
           LET db == calculate_distance_and_bearing(call.aircraft_pos,
                                                    call.target_pos)
           IN (/\ Le(50000, call.aircraft_pos.altitude)
               /\ Le(db[1], 50000000)
               /\ \/ Le(call.aircraft_pos.altitude, call.target_pos.altitude)
                  \/ db[1] = 0)
                  => /\ ~returned.success
                     /\ returned.error_code = "CALCULATION_ERROR"
                     /\ returned.message = MsgNoTrajectory

\* An aircraft 500 m exactly above its target gets the failure.
C24_Witness ==
    /\ SolvedOnObjects
    /\ call.aircraft_pos.altitude = 500000
    /\ call.target_pos.altitude = 0
    /\ calculate_distance_and_bearing(call.aircraft_pos, call.target_pos)[1] = 0
    /\ returned = Failure("CALCULATION_ERROR", MsgNoTrajectory)

\* C25: when calculate_release_point gets as far as the ballistic model,
\* the cruise time exceeds 1.2 times the fall time and the fall time is
\* within (0, 60] s, the call succeeds and its release distance is
\* strictly less than the target distance.
C25_ClampedBranchSucceeds ==
    SolvedOnObjects =>
        LET db == calculate_distance_and_bearing(call.aircraft_pos,
                                                 call.target_pos)
            groundspeed == call.speed_data.groundspeed
            wind == FAbs(FSub(call.speed_data.airspeed, groundspeed))
            fall_time == vertical_time_of(
                             FSub(call.aircraft_pos.altitude,
                                  call.target_pos.altitude))
            cruise_time == FDiv(db[1], FMul(10, FAdd(groundspeed, wind)))
        IN (/\ Le(50000, call.aircraft_pos.altitude)
            /\ Le(db[1], 50000000)
            /\ Gt(call.aircraft_pos.altitude, call.target_pos.altitude)
            /\ Gt(db[1], 0)
            /\ Gt(FMul(10, cruise_time), FMul(12, fall_time))
            /\ Gt(fall_time, 0)
            /\ Le(fall_time, 6000))
               => /\ returned.success
                  /\ Lt(Val(returned.release_distance), db[1])
                  /\ Gt(Val(returned.release_time), 0)

\* The cruise time is just above 1.2 times the fall time and there is no
\* wind: the release distance comes closest to the target distance.
C25_Witness ==
    /\ SolvedOnObjects
    /\ returned.success
    /\ call.speed_data.airspeed = call.speed_data.groundspeed
    /\ calculate_distance_and_bearing(call.aircraft_pos,
                                      call.target_pos)[1] = 555975
    /\ Val(returned.flight_time) =
           (11 * vertical_time_of(call.aircraft_pos.altitude
                                      - call.target_pos.altitude)) \div 10

(***************************************************************************)
(* The controller, second part                                             *)
(***************************************************************************)
\* C26: in every step in which calculate_bomb_release calls the solver,
\* the position reading and the speed reading it passes were each received
\* from the transport less than 5 s before.
C26_BothReadingsFresh ==
    [][(pc = "check_valid" /\ solver_calls' = solver_calls + 1)
           => /\ now - frame.flight_data.timestamp < FRESHNESS_WINDOW
              /\ now - frame.position_received < FRESHNESS_WINDOW]_vars

\* The last n entries of a sequence, all of it when it is shorter.
LastEntries(seq, n) ==
    IF Len(seq) <= n THEN seq ELSE SubSeq(seq, Len(seq) - n + 1, Len(seq))

\* C22: the calculation history never holds more than 10 entries, and each
\* call that reaches the solver leaves in it the last 10 of the old
\* entries followed by the new one: the new entry comes last and, when
\* there were 10 already, the oldest is the one that goes.
C22_HistoryBoundedFifo ==
    /\ [](Len(calculation_history) <= 10)
    /\ [][solver_calls' = solver_calls + 1
             => /\ Len(calculation_history') >= 1
                /\ calculation_history'[Len(calculation_history')].result
                       = returned'
                /\ calculation_history'[Len(calculation_history')].target_pos
                       = frame.target_pos
                /\ calculation_history' =
                       LastEntries(
                           Append(calculation_history,
                                  calculation_history'[
                                      Len(calculation_history')]),
                           10)]_vars

\* Twelve solves have been made; the history holds the last ten, whose
\* targets differ from those of the first ten.
C22_Witness ==
    /\ solver_calls = 12
    /\ Len(calculation_history) = 10
    /\ calculation_history[1].target_pos = NoneType
    /\ calculation_history[9].target_pos = ScenarioTarget
    /\ calculation_history[10].target_pos = NoneType

\* C29: calculate_bomb_release changes calculation_history and
\* last_calculation only in the step that calls the solver; that step
\* appends one entry holding the result the call returns, success or
\* failure, and makes that result last_calculation; the returns at the
\* connection check, the telemetry pull and the freshness check leave both
\* as they were.
C29_HistoryChangesOnlyAtSolver ==
    [][IF pc = "check_valid" /\ pc' = "idle"
                             /\ is_valid(frame.flight_data, now)
       THEN /\ solver_calls' = solver_calls + 1
            /\ last_calculation' = returned'
            /\ calculation_history' =
                   LastEntries(
                       Append(calculation_history,
                              [timestamp |-> now,
                               flight_data |-> frame.flight_data,
                               target_pos |-> frame.target_pos,
                               result |-> returned']),
                       10)
       ELSE /\ calculation_history' = calculation_history
            /\ last_calculation' = last_calculation
            /\ solver_calls' = solver_calls]_vars

\* A call that reached the solver and got a failure from it is in the
\* history.
C29_Witness ==
    /\ call.op = "calculate_bomb_release"
    /\ pc = "idle"
    /\ solver_calls = 1
    /\ Len(calculation_history) = 1
    /\ calculation_history[1].result = returned
    /\ last_calculation = returned
    /\ ~returned.success

(***************************************************************************)
(* The session of one MAVLinkConnection, second part                       *)
(***************************************************************************)
\* C30: in every state reached through connect, disconnect and
\* check_connection, connects that time out or raise included, a session
\* whose is_connected is true holds a transport handle.
C30_ConnectedHasHandle ==
    mavlink_conn.is_connected => ~IsNone(mavlink_conn.connection)

\* A second connect has timed out on a connected session: the flag is
\* still set and the handle is the one the second connect opened.
C30_Witness ==
    /\ call.op = "connect_to_aircraft"
    /\ returned = ReturnValue(FALSE)
    /\ mavlink_conn.is_connected
    /\ mavlink_conn.connection = Some(2)

(***************************************************************************)
(* Transport handles                                                       *)
(***************************************************************************)
\* C27: at every point of any sequence of connect and disconnect
\* operations on a session, at most one transport handle that the program
\* opened is still unclosed.
C27_AtMostOneOpenHandle ==
    Cardinality(handles) <= 1

(***************************************************************************)
(* The threads of the service                                              *)
(***************************************************************************)
\* C21: the monitor thread is never inside check_connection or inside
\* connect_mavlink while a get_complete_flight_data on the same session is
\* in flight in a thread that called calculate_bombing_solution.
C21_MonitorExcludesPull ==
    ~(PullInFlight
          /\ service.monitor \in {"check_connection", "connect_mavlink"})

\* C28: once stop has returned, the session of the controller the service
\* refers to is not connected, at that moment and at every later one.
C28_NothingConnectedAfterStop ==
    service.stop = "returned" => ~mavlink_conn.is_connected

====
